---- MODULE Spec2Model ----
(***************************************************************************)
(* env_audit_report.py: discovery of virtual environments under a root     *)
(* directory (find_virtualenvs), per-environment inspection through the    *)
(* environment's own interpreter (get_env_package_info, run_pip_check) and *)
(* aggregation into two tables written as CSV files (main).                *)
(*                                                                         *)
(* Text is a sequence of one-character strings (longer fixed texts are one *)
(* element).  A Python / JSON value is a record [t |-> tag, v |-> payload];*)
(* a dict is a sequence of [k |-> key, v |-> value] items in insertion     *)
(* order.  A directory path is the sequence of its components.             *)
(***************************************************************************)
EXTENDS Integers, Sequences, FiniteSets, TLC

VARIABLES
    system,            \* platform.system() of the host
    dirs,              \* the directories of the file system (paths)
    pyfiles,           \* the directories that hold a regular file named MarkerFile
    root_kind,         \* what the path given at the prompt is: a directory, a file, missing
    pc,                \* position of main
    stack,             \* os.walk: the directories still to be yielded, next first
    visited,           \* os.walk: the directories yielded so far
    envs,              \* find_virtualenvs: the list being built / returned
    idx,               \* main: index of the environment being processed
    all_package_rows,  \* main: the package table
    all_env_rows,      \* main: the environment table
    procs,             \* the subprocesses launched so far
    inspected,         \* what the latest introspection subprocess did
    checked,           \* what the latest os.stat and pip-check subprocess did
    rows_before,       \* the length of the package table when the latest inspection began
    failed,            \* the indices of the environments whose introspection subprocess failed
    files,             \* the two output files in the working directory
    exit_status        \* "running", "0", "1" (sys.exit(1)) or "traceback" (uncaught exception)

vars == << system, dirs, pyfiles, root_kind, pc, stack, visited, envs, idx,
           all_package_rows, all_env_rows, procs, inspected, checked, rows_before, failed, files, exit_status >>

-----------------------------------------------------------------------------
(* Bounds of the model *)

\* At most this many directories below the root directory.
MaxDirs == 5

\* At most this many distributions in a site-packages directory (SpecInspect).
MaxPkgs == 2

\* At most this many characters on the standard output, and on the standard
\* error, of a pip check (SpecPip).
MaxText == 2

-----------------------------------------------------------------------------
(* The file system *)

\* The root directory main is pointed at.
RootDir == << "r" >>

\* Directory holding the interpreter, by platform (lines 45-48).
MarkerDir(sys) == IF sys = "Windows" THEN "Scripts" ELSE "bin"

\* File name of the interpreter, by platform (lines 45-48).
MarkerFile(sys) == IF sys = "Windows" THEN "python.exe" ELSE "python"

\* Directory names that occur in the modelled trees.
DirNames(sys) == { "a", MarkerDir(sys) }

\* os.path.basename of a path without trailing separator.
basename(path) == path[Len(path)]

\* The sub-directories a directory listing of d returns.
Children(d) == { p \in dirs : Len(p) = Len(d) + 1 /\ SubSeq(p, 1, Len(d)) = d }

\* All orders in which a set of paths can be listed.
Orders(S) == { s \in [1..Cardinality(S) -> S] : \A i, j \in 1..Cardinality(S) : i # j => s[i] # s[j] }

\* os.path.isfile(os.path.join(dirpath, MarkerDir, MarkerFile)).
isfile_candidate(dirpath) ==
    LET d == Append(dirpath, MarkerDir(system)) IN d \in dirs /\ d \in pyfiles

-----------------------------------------------------------------------------
(* Python values *)

Str(s)      == [t |-> "str",  v |-> s]
\* Numbers are held in hundredths: Num(150) is 1.5.
Num(n)      == [t |-> "num",  v |-> n]
List(items) == [t |-> "list", v |-> items]
Dict(items) == [t |-> "dict", v |-> items]
None        == [t |-> "null", v |-> << >>]

\* bool(x), as "if env_data:" takes it (line 151).
Truthy(x) ==
    CASE x.t = "null" -> FALSE
      [] x.t = "num"  -> x.v # 0
      [] OTHER        -> x.v # << >>

\* d.get(key, default) on the items of a dict.
RECURSIVE dict_get(_, _, _)
dict_get(items, key, default) ==
    IF items = << >> THEN default
    ELSE IF Head(items).k = key THEN Head(items).v
    ELSE dict_get(Tail(items), key, default)

\* What "for pkg in x" iterates over; the for statement raises TypeError on the rest.
Iterable(x) == x.t \in { "list", "dict", "str" }
Iter(x) ==
    CASE x.t = "list" -> x.v
      [] x.t = "dict" -> [i \in 1..Len(x.v) |-> Str(<< x.v[i].k >>)]
      [] OTHER        -> [i \in 1..Len(x.v) |-> Str(<< x.v[i] >>)]

\* str.replace('-', '_') (line 79).
replace_hyphen(s) == [i \in 1..Len(s) |-> IF s[i] = "-" THEN "_" ELSE s[i]]

IsSpace(c) == c \in { " ", "\n", "\t" }

\* str.strip() (lines 122, 125).
RECURSIVE lstrip(_)
lstrip(s) == IF s # << >> /\ IsSpace(Head(s)) THEN lstrip(Tail(s)) ELSE s
RECURSIVE rstrip(_)
rstrip(s) == IF s # << >> /\ IsSpace(s[Len(s)]) THEN rstrip(SubSeq(s, 1, Len(s) - 1)) ELSE s
strip(s) == rstrip(lstrip(s))

DigitChar == << "0", "1", "2", "3", "4", "5", "6", "7", "8", "9" >>

\* Decimal digits of a natural number.
RECURSIVE Decimal(_)
Decimal(n) == IF n < 10 THEN << DigitChar[n + 1] >> ELSE Append(Decimal(n \div 10), DigitChar[(n % 10) + 1])

\* time.ctime(t): a formatted timestamp (lines 83, 170).
ctime(t) == << "ctime " >> \o Decimal(t)

\* 24*3600 (line 84).
SecondsPerDay == 86400

\* round(delta / (24*3600), 2), in hundredths (line 84): round half to even.
round_days(delta) ==
    LET n == delta * 100
        q == n \div SecondsPerDay
        r == n % SecondsPerDay
    IN  IF 2 * r > SecondsPerDay THEN q + 1
        ELSE IF 2 * r < SecondsPerDay THEN q
        ELSE IF q % 2 = 0 THEN q ELSE q + 1

-----------------------------------------------------------------------------
(* Subprocesses *)

\* The standard output of a process that printed json.dumps(v), and of one that
\* printed something json.loads rejects.
json_dumps(v) == [json |-> TRUE, value |-> v]
Garbage       == [json |-> FALSE, value |-> None]

\* json.loads(text) (line 103).
json_loads(text) ==
    IF text.json THEN [raise |-> "", value |-> text.value]
    ELSE [raise |-> "JSONDecodeError", value |-> None]

\* subprocess.run(..., capture_output=True, text=True, check=True) on a process
\* that behaves as o says (lines 97-102, 115-120).
subprocess_run(o) ==
    CASE o.kind = "oserror" -> [raise |-> "OSError", stdout |-> o.stdout, stderr |-> o.stderr]
      [] o.kind = "nonzero" -> [raise |-> "CalledProcessError", stdout |-> o.stdout, stderr |-> o.stderr]
      [] OTHER              -> [raise |-> "", stdout |-> o.stdout, stderr |-> o.stderr]

\* The sentinel of line 86.
NotFound == << "Package folder not found." >>

\* Mutant of package_record: a missing folder leaves a zero days value.
package_record_stale(dist, site) ==
    LET package_folder == replace_hyphen(dist)
    IN  IF package_folder \in site.entries
        THEN Dict(<< [k |-> "Package", v |-> Str(dist)],
                     [k |-> "Last_Access_Time", v |-> Str(ctime(site.atime))],
                     [k |-> "Days_Since_Last_Access", v |-> Num(round_days(site.now - site.atime))] >>)
        ELSE Dict(<< [k |-> "Package", v |-> Str(dist)],
                     [k |-> "Last_Access_Time", v |-> Str(NotFound)],
                     [k |-> "Days_Since_Last_Access", v |-> Num(0)] >>)

\* Lines 77-92 of the snippet: the record of one distribution of a site.
package_record(dist, site) ==
    LET package_folder == replace_hyphen(dist)
    IN  IF package_folder \in site.entries
        THEN Dict(<< [k |-> "Package", v |-> Str(dist)],
                     [k |-> "Last_Access_Time", v |-> Str(ctime(site.atime))],
                     [k |-> "Days_Since_Last_Access", v |-> Num(round_days(site.now - site.atime))] >>)
        ELSE Dict(<< [k |-> "Package", v |-> Str(dist)],
                     [k |-> "Last_Access_Time", v |-> Str(NotFound)],
                     [k |-> "Days_Since_Last_Access", v |-> None] >>)

\* Lines 68-94: what the snippet prints when run by the interpreter of env.
snippet(env, site) ==
    json_dumps(Dict(<<
        [k |-> "env_info", v |-> Dict(<<
            [k |-> "Python_Version", v |-> Str(<< "3" >>)],
            [k |-> "Python_Installation_Location", v |-> Str(env.python_exe)],
            [k |-> "Environment_Location", v |-> Str(env.env_path)] >>)],
        [k |-> "packages", v |-> List([i \in 1..Len(site.dists) |-> package_record(site.dists[i], site)])] >>))

\* Mutant of get_env_package_info: the exception of a failed subprocess is not caught.
get_env_package_info_uncaught(o) ==
    LET proc == subprocess_run(o)
    IN  IF proc.raise # "" THEN [raise |-> proc.raise, value |-> None]
        ELSE LET data == json_loads(proc.stdout)
             IN  IF data.raise # "" THEN [raise |-> "", value |-> None]
                 ELSE [raise |-> "", value |-> data.value]

\* get_env_package_info (lines 57-107): the data, or None on any exception.
get_env_package_info(o) ==
    LET proc == subprocess_run(o)
    IN  IF proc.raise # "" THEN [raise |-> "", value |-> None]
        ELSE LET data == json_loads(proc.stdout)
             IN  IF data.raise # "" THEN [raise |-> "", value |-> None]
                 ELSE [raise |-> "", value |-> data.value]

\* The prefix of line 127.
PipErrorMarker == "Error running pip check: "

\* Mutant of run_pip_check: only CalledProcessError is caught.
run_pip_check_uncaught(o) ==
    LET proc == subprocess_run(o)
    IN  CASE proc.raise = ""                   -> [raise |-> "", value |-> Str(strip(proc.stdout))]
          [] proc.raise = "CalledProcessError" -> [raise |-> "", value |-> Str(strip(proc.stdout) \o << "\n" >> \o strip(proc.stderr))]
          [] OTHER                             -> [raise |-> proc.raise, value |-> None]

\* run_pip_check (lines 109-128).
run_pip_check(o) ==
    LET proc == subprocess_run(o)
    IN  CASE proc.raise = ""                   -> [raise |-> "", value |-> Str(strip(proc.stdout))]
          [] proc.raise = "CalledProcessError" -> [raise |-> "", value |-> Str(strip(proc.stdout) \o << "\n" >> \o strip(proc.stderr))]
          [] OTHER                             -> [raise |-> "", value |-> Str(<< PipErrorMarker, proc.raise >>)]

-----------------------------------------------------------------------------
(* main (lines 130-196) *)

\* Mutant of isdir: the root directory is not checked.
isdir_unchecked(kind) == TRUE

\* os.path.isdir(parent_env_dir) (line 133).
isdir(kind) == kind = "dir"

\* Mutant of no_environments: an empty result is not noticed.
no_environments_unnoticed(environments) == FALSE

\* "not environments" (line 139).
no_environments(environments) == environments = << >>

\* Lines 156-164: the row of one package.
package_row(env_name, env_info, pkg) ==
    << [k |-> "Environment Name", v |-> Str(<< env_name >>)],
       [k |-> "Python Version", v |-> dict_get(env_info.v, "Python_Version", Str(<< >>))],
       [k |-> "Python Installation Location", v |-> dict_get(env_info.v, "Python_Installation_Location", Str(<< >>))],
       [k |-> "Environment Location", v |-> dict_get(env_info.v, "Environment_Location", Str(<< >>))],
       [k |-> "Package", v |-> dict_get(pkg.v, "Package", Str(<< >>))],
       [k |-> "Last Access Time", v |-> dict_get(pkg.v, "Last_Access_Time", Str(<< >>))],
       [k |-> "Days Since Last Access", v |-> dict_get(pkg.v, "Days_Since_Last_Access", Str(<< >>))] >>

\* Lines 155-165: the rows appended before the loop ends or raises.
RECURSIVE package_loop(_, _, _, _)
package_loop(env_name, env_info, pkgs, rows) ==
    IF pkgs = << >> THEN [raise |-> "", rows |-> rows]
    ELSE IF env_info.t # "dict" \/ Head(pkgs).t # "dict"
         THEN [raise |-> "AttributeError", rows |-> rows]
    ELSE package_loop(env_name, env_info, Tail(pkgs),
                      Append(rows, package_row(env_name, env_info, Head(pkgs))))

\* Lines 151-165: the package rows env_data gives, and the exception that ends them.
package_rows(env_name, env_data) ==
    IF ~Truthy(env_data) THEN [raise |-> "", rows |-> << >>]
    ELSE IF env_data.t # "dict" THEN [raise |-> "AttributeError", rows |-> << >>]
    ELSE LET env_info == dict_get(env_data.v, "env_info", Dict(<< >>))
             packages == dict_get(env_data.v, "packages", List(<< >>))
         IN  IF ~Iterable(packages) THEN [raise |-> "TypeError", rows |-> << >>]
             ELSE package_loop(env_name, env_info, Iter(packages), << >>)

\* Lines 168-172: the environment's last access time, or the error text.
env_last_access(s) ==
    IF s.ok THEN Str(ctime(s.atime)) ELSE Str(<< "Error: ", "OSError" >>)

\* Mutant of env_row: the row is named by the environment's path.
env_row_by_path(env, last_access, pip_check_output) ==
    << [k |-> "Environment Name", v |-> Str(env.env_path)],
       [k |-> "Environment Last Access Time", v |-> last_access],
       [k |-> "Pip Check Output", v |-> pip_check_output] >>

\* Lines 177-181: the row of one environment.
env_row(env, last_access, pip_check_output) ==
    << [k |-> "Environment Name", v |-> Str(<< env.env_name >>)],
       [k |-> "Environment Last Access Time", v |-> last_access],
       [k |-> "Pip Check Output", v |-> pip_check_output] >>

\* pd.DataFrame(rows).columns for a list of dicts with the same keys (lines 185-186):
\* the keys of the rows, none when there is no row.
DataFrameColumns(rows) ==
    IF rows = << >> THEN << >> ELSE [i \in 1..Len(rows[1]) |-> rows[1][i].k]

\* DataFrame(rows).to_csv(name, index=False) (lines 194-195): the header row and the data rows.
to_csv(rows) ==
    [ header |-> DataFrameColumns(rows),
      data   |-> [r \in 1..Len(rows) |-> [i \in 1..Len(rows[r]) |-> rows[r][i].v]] ]

-----------------------------------------------------------------------------
(* What the world outside the program may do *)

NoSite == [dists |-> << >>, entries |-> {}, atime |-> 0, now |-> 0]

\* The contents of a site-packages directory: the distributions of the working
\* set, the entries present in the directory, their access time and the clock.
SampleSites ==
    { [dists |-> << >>, entries |-> {}, atime |-> 0, now |-> 0],
      [dists |-> << << "a", "-", "b" >> >>, entries |-> { << "a", "_", "b" >> }, atime |-> 0, now |-> 129600],
      [dists |-> << << "a", "-", "b" >> >>, entries |-> { << "a", "-", "b" >> }, atime |-> 0, now |-> 129600] }

\* Sequences of at most n elements of S.
SeqsUpTo(S, n) == UNION { [1..k -> S] : k \in 0..n }

\* Every site-packages directory of up to MaxPkgs distributions.
Sites ==
    { [dists |-> d, entries |-> e, atime |-> t[1], now |-> t[2]] :
        d \in SeqsUpTo({ << "a", "-", "b" >>, << "a", "_", "b" >>, << "c" >> }, MaxPkgs),
        e \in SUBSET { << "a", "-", "b" >>, << "a", "_", "b" >>, << "c" >> },
        t \in { << 0, 432 >>, << 0, 129600 >>, << 86400, 0 >> } }

\* A process that ran the snippet to its end.
Ran(env, site) == [kind |-> "exit0", stdout |-> snippet(env, site), stderr |-> << >>, site |-> site]

\* A process whose standard output is not the snippet's payload.
Odd(v) == [kind |-> "exit0", stdout |-> v, stderr |-> << >>, site |-> NoSite]

GoodPackage == Dict(<< [k |-> "Package", v |-> Str(<< "c" >>)] >>)

\* Standard output that is JSON but not the payload of the snippet.
OddPayloads ==
    { None, Num(500), Str(<< "x" >>), List(<< Num(100) >>), Dict(<< >>),
      Dict(<< [k |-> "packages", v |-> Num(100)] >>),
      Dict(<< [k |-> "packages", v |-> List(<< GoodPackage, Num(100) >>)] >>),
      Dict(<< [k |-> "env_info", v |-> Num(100)], [k |-> "packages", v |-> List(<< GoodPackage >>)] >>) }

\* What the introspection subprocess of env may do.
InspectOutcomes(env) ==
    { [kind |-> "oserror", stdout |-> Garbage, stderr |-> << >>, site |-> NoSite],
      [kind |-> "nonzero", stdout |-> Garbage, stderr |-> << "e" >>, site |-> NoSite],
      Odd(Garbage) }
    \cup { Odd(json_dumps(v)) : v \in OddPayloads }
    \cup { Ran(env, site) : site \in SampleSites }

\* What the pip-check subprocess may do.
SamplePipOutcomes ==
    { [kind |-> "exit0",   stdout |-> << "o", "k", "\n" >>, stderr |-> << >>],
      [kind |-> "nonzero", stdout |-> << "x", "\n" >>, stderr |-> << >>],
      [kind |-> "oserror", stdout |-> << >>, stderr |-> << >>] }

\* Every pip check whose output and error output have up to MaxText characters.
PipOutcomes ==
    { [kind |-> k, stdout |-> out, stderr |-> err] :
        k \in { "exit0", "nonzero", "oserror" },
        out \in SeqsUpTo({ "x", " ", "\n" }, MaxText),
        err \in SeqsUpTo({ "x", " ", "\n" }, MaxText) }

\* What os.stat(env_path) may do.
StatOutcomes == { [ok |-> TRUE, atime |-> 7], [ok |-> FALSE, atime |-> 0] }

-----------------------------------------------------------------------------
(* The state before main runs: somebody builds a directory tree. *)

InitOn(systems) ==
    /\ system \in systems
    /\ dirs = { RootDir }
    /\ pyfiles = {}
    /\ root_kind = "unset"
    /\ pc = "setup"
    /\ stack = << >>
    /\ visited = {}
    /\ envs = << >>
    /\ idx = 0
    /\ all_package_rows = << >>
    /\ all_env_rows = << >>
    /\ procs = << >>
    /\ inspected = [kind |-> "none", stdout |-> Garbage, stderr |-> << >>, site |-> NoSite]
    /\ checked = [stat |-> [ok |-> FALSE, atime |-> 0], pip |-> [kind |-> "none", stdout |-> << >>, stderr |-> << >>]]
    /\ rows_before = 0
    /\ failed = {}
    /\ files = [f \in { "pip_envs_packages_info.csv", "pip_envs_env_info.csv" } |-> "prior"]
    /\ exit_status = "running"

\* main is about to run on a Linux host.
Init == InitOn({ "Linux" })

\* A directory is created under an existing one.
Mkdir ==
    /\ pc = "setup"
    /\ Cardinality(dirs) - 1 < MaxDirs
    /\ \E parent \in dirs, name \in DirNames(system) :
          /\ Append(parent, name) \notin dirs
          /\ dirs' = dirs \cup { Append(parent, name) }
    /\ UNCHANGED << system, pyfiles, root_kind, pc, stack, visited, envs, idx, all_package_rows,
                    all_env_rows, procs, inspected, checked, rows_before, failed, files, exit_status >>

\* An interpreter file is put into a directory named MarkerDir.
TouchPython ==
    /\ pc = "setup"
    /\ \E d \in dirs \ pyfiles :
          /\ basename(d) = MarkerDir(system)
          /\ pyfiles' = pyfiles \cup { d }
    /\ UNCHANGED << system, dirs, root_kind, pc, stack, visited, envs, idx, all_package_rows,
                    all_env_rows, procs, inspected, checked, rows_before, failed, files, exit_status >>

-----------------------------------------------------------------------------
(* find_virtualenvs (lines 31-55) *)

\* Mutant of WalkBody: dirnames is not cleared.
WalkBody_no_clear(dirpath, order) ==
    IF isfile_candidate(dirpath)
    THEN << Append(envs, [ env_name   |-> basename(dirpath),
                           env_path   |-> dirpath,
                           python_exe |-> dirpath \o << MarkerDir(system), MarkerFile(system) >> ]),
            order \o Tail(stack) >>
    ELSE << envs, order \o Tail(stack) >>

\* One iteration of "for dirpath, dirnames, filenames in os.walk(root_dir)".
\* Returns the new values of << envs, stack >> for the listing order chosen.
WalkBody(dirpath, order) ==
    IF isfile_candidate(dirpath)
    THEN << Append(envs, [ env_name   |-> basename(dirpath),
                           env_path   |-> dirpath,
                           python_exe |-> dirpath \o << MarkerDir(system), MarkerFile(system) >> ]),
            Tail(stack) >>
    ELSE << envs, order \o Tail(stack) >>

WalkStep ==
    /\ pc = "walk"
    /\ stack # << >>
    /\ \E order \in Orders(Children(Head(stack))) :
          LET r == WalkBody(Head(stack), order) IN
          /\ envs' = r[1]
          /\ stack' = r[2]
    /\ visited' = visited \cup { Head(stack) }
    /\ UNCHANGED << system, dirs, pyfiles, root_kind, pc, idx, all_package_rows, all_env_rows,
                    procs, inspected, checked, rows_before, failed, files, exit_status >>

-----------------------------------------------------------------------------
(* main, step by step *)

\* An uncaught exception ends the process with a traceback.
Crash ==
    /\ pc' = "exited"
    /\ exit_status' = "traceback"

\* Lines 132-138: the prompt and the check of the root directory.  The path
\* entered is RootDir (kind "dir"), a file, or a path that does not exist;
\* os.walk yields nothing for a path it cannot list.
Prompt ==
    /\ pc = "setup"
    /\ \E kind \in { "dir", "file", "missing" } :
          /\ root_kind' = kind
          /\ IF ~isdir(kind)
             THEN /\ pc' = "exited"
                  /\ exit_status' = "1"
                  /\ stack' = stack
             ELSE /\ pc' = "walk"
                  /\ exit_status' = exit_status
                  /\ stack' = IF kind = "dir" THEN << RootDir >> ELSE << >>
    /\ UNCHANGED << system, dirs, pyfiles, visited, envs, idx, all_package_rows,
                    all_env_rows, procs, inspected, checked, rows_before, failed, files >>

\* Lines 55, 138-144: find_virtualenvs returns.
WalkReturn ==
    /\ pc = "walk"
    /\ stack = << >>
    /\ IF no_environments(envs)
       THEN /\ pc' = "exited"
            /\ exit_status' = "1"
            /\ idx' = idx
       ELSE /\ pc' = "loop"
            /\ exit_status' = exit_status
            /\ idx' = 1
    /\ UNCHANGED << system, dirs, pyfiles, root_kind, stack, visited, envs, all_package_rows,
                    all_env_rows, procs, inspected, checked, rows_before, failed, files >>

\* Lines 146-165: the environment is inspected and its package rows are appended.
InspectWith(O) ==
    /\ pc = "loop"
    /\ idx <= Len(envs)
    /\ \E o \in O :
          LET env_data == get_env_package_info(o)
              pr       == package_rows(envs[idx].env_name, env_data.value)
          IN  /\ procs' = Append(procs, [exe |-> envs[idx].python_exe, args |-> "-c"])
              /\ inspected' = o
              /\ rows_before' = Len(all_package_rows)
              /\ failed' = IF subprocess_run(o).raise # "" THEN failed \cup { idx } ELSE failed
              /\ IF env_data.raise # ""
                 THEN Crash /\ all_package_rows' = all_package_rows
                 ELSE /\ all_package_rows' = all_package_rows \o pr.rows
                      /\ IF pr.raise # ""
                         THEN Crash
                         ELSE pc' = "check" /\ exit_status' = exit_status
    /\ UNCHANGED << system, dirs, pyfiles, root_kind, stack, visited, envs, idx,
                    all_env_rows, checked, files >>

Inspect == InspectWith(InspectOutcomes(envs[idx]))

\* Lines 167-182: stat of the environment, pip check, the environment row.
CheckWith(P) ==
    /\ pc = "check"
    /\ \E s \in StatOutcomes, p \in P :
          LET out == run_pip_check(p)
          IN  /\ procs' = Append(procs, [exe |-> envs[idx].python_exe, args |-> "-m pip check"])
              /\ checked' = [stat |-> s, pip |-> p]
              /\ IF out.raise # ""
                 THEN Crash /\ UNCHANGED << all_env_rows, idx >>
                 ELSE /\ all_env_rows' = Append(all_env_rows, env_row(envs[idx], env_last_access(s), out.value))
                      /\ idx' = idx + 1
                      /\ pc' = "loop"
                      /\ exit_status' = exit_status
    /\ UNCHANGED << system, dirs, pyfiles, root_kind, stack, visited, envs,
                    all_package_rows, inspected, rows_before, failed, files >>

Check == CheckWith(SamplePipOutcomes)

\* Lines 184-196: the tables are written.
Emit ==
    /\ pc = "loop"
    /\ idx > Len(envs)
    /\ files' = [f \in DOMAIN files |->
                    IF f = "pip_envs_packages_info.csv" THEN to_csv(all_package_rows)
                    ELSE to_csv(all_env_rows)]
    /\ pc' = "exited"
    /\ exit_status' = "0"
    /\ UNCHANGED << system, dirs, pyfiles, root_kind, stack, visited, envs, idx,
                    all_package_rows, all_env_rows, procs, inspected, checked, rows_before, failed >>

-----------------------------------------------------------------------------
(* The specifications *)

Next == Mkdir \/ TouchPython \/ Prompt \/ WalkStep \/ WalkReturn \/ Inspect \/ Check \/ Emit

\* The whole program on every directory tree of up to MaxDirs directories.
Spec == Init /\ [][Next]_vars

\* The host is of either platform family.
InitWalk == InitOn({ "Linux", "Windows" })

NextWalk == Mkdir \/ TouchPython \/ Prompt \/ WalkStep \/ WalkReturn

\* main up to the return of find_virtualenvs, on both platform families.
SpecWalk == InitWalk /\ [][NextWalk]_vars

\* The environment found in the tree r/a/bin/python.
OneEnv == [ env_name |-> "a", env_path |-> << "r", "a" >>, python_exe |-> << "r", "a", "bin", "python" >> ]

\* main after find_virtualenvs has returned OneEnv.
InitLoop ==
    /\ system = "Linux"
    /\ dirs = { RootDir, << "r", "a" >>, << "r", "a", "bin" >> }
    /\ pyfiles = { << "r", "a", "bin" >> }
    /\ root_kind = "dir"
    /\ pc = "loop"
    /\ stack = << >>
    /\ visited = { RootDir, << "r", "a" >> }
    /\ envs = << OneEnv >>
    /\ idx = 1
    /\ all_package_rows = << >>
    /\ all_env_rows = << >>
    /\ procs = << >>
    /\ inspected = [kind |-> "none", stdout |-> Garbage, stderr |-> << >>, site |-> NoSite]
    /\ checked = [stat |-> [ok |-> FALSE, atime |-> 0], pip |-> [kind |-> "none", stdout |-> << >>, stderr |-> << >>]]
    /\ rows_before = 0
    /\ failed = {}
    /\ files = [f \in { "pip_envs_packages_info.csv", "pip_envs_env_info.csv" } |-> "prior"]
    /\ exit_status = "running"

\* The inspection of an environment whose site-packages is any of Sites.
InspectSite == InspectWith({ Ran(envs[idx], site) : site \in Sites })

NextInspect == InspectSite \/ Check \/ Emit

\* The main loop on one environment, over every site-packages of up to MaxPkgs distributions.
SpecInspect == InitLoop /\ [][NextInspect]_vars

\* The health check of an environment whose pip check does any of PipOutcomes.
CheckPip == CheckWith(PipOutcomes)

NextPip == Inspect \/ CheckPip \/ Emit

\* The main loop on one environment, over every pip-check output of up to MaxText characters.
SpecPip == InitLoop /\ [][NextPip]_vars

-----------------------------------------------------------------------------
(* Vocabulary of the properties *)

\* The value a row holds under a column.
Field(row, key) == row[CHOOSE i \in DOMAIN row : row[i].k = key].v

\* The environment names of a table, as a set.
NamesOf(table) == { Field(table[i], "Environment Name") : i \in DOMAIN table }

\* The characters of a text that are not white space.
NonSpace(s) == SelectSeq(s, LAMBDA c : c \notin { " ", "\n", "\t" })

\* One path is a strict ancestor directory of another.
IsStrictAncestor(p, q) == Len(p) < Len(q) /\ SubSeq(q, 1, Len(p)) = p

\* A directory has the interpreter marker directly under it.
HoldsMarker(d) == Append(d, IF system = "Windows" THEN "Scripts" ELSE "bin") \in pyfiles

\* The run wrote its reports.
Emitted == pc = "exited" /\ exit_status = "0"

\* find_virtualenvs has returned.
WalkFinished == root_kind = "dir" /\ pc \notin { "setup", "walk" }

\* The introspection subprocess exited non-zero or could not be launched.
IntrospectionFailed(o) == o.kind \in { "oserror", "nonzero" }

\* Neither output file has been written.
NothingWritten == \A f \in DOMAIN files : files[f] = "prior"

\* The documented row schemas.
PackageSchema ==
    << "Environment Name", "Python Version", "Python Installation Location",
       "Environment Location", "Package", "Last Access Time", "Days Since Last Access" >>
EnvironmentSchema == << "Environment Name", "Environment Last Access Time", "Pip Check Output" >>

\* The payload the snippet is meant to print: an object holding an env_info
\* object and a list of package objects.
ExpectedPayload(text) ==
    /\ text.json
    /\ text.value.t = "dict"
    /\ \E i \in DOMAIN text.value.v : text.value.v[i].k = "env_info" /\ text.value.v[i].v.t = "dict"
    /\ \E i \in DOMAIN text.value.v :
          /\ text.value.v[i].k = "packages"
          /\ text.value.v[i].v.t = "list"
          /\ \A j \in DOMAIN text.value.v[i].v.v : text.value.v[i].v.v[j].t = "dict"

-----------------------------------------------------------------------------
(* The properties *)

\* C1: a failed introspection (non-zero exit, interpreter not launchable) never
\* ends the run and adds no package row, the environment still gets its row with
\* the captured pip-check text, and every environment, whatever happened to the
\* ones before it, gets the rows its own subprocesses call for.
C1_FailureIsolation ==
    /\ exit_status = "traceback" => ~IntrospectionFailed(inspected)
    /\ (pc = "check" /\ IntrospectionFailed(inspected)) =>
          /\ idx \in failed
          /\ Len(all_package_rows) = rows_before
    /\ (pc = "check" /\ inspected.kind = "exit0" /\ inspected.site.dists # << >>) =>
          /\ Len(all_package_rows) = rows_before + Len(inspected.site.dists)
          /\ \A i \in DOMAIN inspected.site.dists :
                /\ Field(all_package_rows[rows_before + i], "Environment Name") = Str(<< envs[idx].env_name >>)
                /\ Field(all_package_rows[rows_before + i], "Package") = Str(inspected.site.dists[i])
    /\ pc = "loop" =>
          /\ Len(all_env_rows) = idx - 1
          /\ Len(procs) = 2 * (idx - 1)
          /\ \A i \in 1..(idx - 1) :
                /\ Field(all_env_rows[i], "Environment Name") = Str(<< envs[i].env_name >>)
                /\ procs[2 * i - 1] = [exe |-> envs[i].python_exe, args |-> "-c"]
                /\ procs[2 * i] = [exe |-> envs[i].python_exe, args |-> "-m pip check"]
          /\ idx > 1 =>
                LET out == Field(all_env_rows[idx - 1], "Pip Check Output")
                IN  /\ out.t = "str"
                    /\ checked.pip.kind # "oserror" =>
                          NonSpace(out.v) = NonSpace(checked.pip.stdout \o checked.pip.stderr)
    /\ Emitted => Len(all_env_rows) = Len(envs)

\* C1 witness: the first of two environments failed its introspection, the second
\* one reported packages, and the run ended with both environment rows.
C1_Witness ==
    /\ Emitted
    /\ Len(envs) = 2
    /\ failed = { 1 }
    /\ Len(all_env_rows) = 2
    /\ Len(all_package_rows) > 0
    /\ inspected.site.dists # << >>

\* C2: at report emission every located environment has exactly one row of the
\* environment table with its name (the claim as stated).
C2_OneRowPerName ==
    Emitted =>
        \A i \in DOMAIN envs :
            Cardinality({ j \in DOMAIN all_env_rows :
                            Field(all_env_rows[j], "Environment Name") = Str(<< envs[i].env_name >>) }) = 1

\* C3: at report emission, and whenever the loop is between two environments,
\* every package row's environment name is the name of some environment row.
C3_PackageRowsHaveEnvRow ==
    (Emitted \/ pc = "loop") => NamesOf(all_package_rows) \subseteq NamesOf(all_env_rows)

\* C3 witness: reports written after a mix of failed and successful inspections,
\* with package rows in the table.
C3_Witness ==
    /\ Emitted
    /\ failed # {}
    /\ failed # DOMAIN envs
    /\ all_package_rows # << >>

\* C4: no located environment lies below another one, nothing below a directory
\* holding the marker is visited, and when the walk is over exactly the
\* directories with no marker-holding ancestor have been visited, those of them
\* that hold the marker being the result.
C4_Pruning ==
    /\ \A i, j \in DOMAIN envs : ~IsStrictAncestor(envs[i].env_path, envs[j].env_path)
    /\ \A v \in visited : \A d \in dirs : (HoldsMarker(d) /\ IsStrictAncestor(d, v)) => FALSE
    /\ \A i \in DOMAIN envs : envs[i].env_path \in visited /\ HoldsMarker(envs[i].env_path)
    /\ WalkFinished =>
          /\ \A d \in dirs :
                d \in visited <=> ~\E a \in dirs : HoldsMarker(a) /\ IsStrictAncestor(a, d)
          /\ { envs[i].env_path : i \in DOMAIN envs } = { d \in visited : HoldsMarker(d) }
          /\ \A i, j \in DOMAIN envs : i # j => envs[i].env_path # envs[j].env_path

\* C4 witness: the walk is over, a located environment has a directory below it
\* that holds the marker too and was never visited, and a directory without the
\* marker was descended into.
C4_Witness ==
    /\ WalkFinished
    /\ \E i \in DOMAIN envs : \E d \in dirs :
          IsStrictAncestor(envs[i].env_path, d) /\ HoldsMarker(d) /\ d \notin visited
    /\ \E i \in DOMAIN envs : Len(envs[i].env_path) > 2

\* C5: an introspection subprocess that exits 0 with anything but the expected
\* payload counts as a failed inspection: no package rows, no end of the run
\* (the claim as stated).
C5_MalformedIsFailure ==
    (inspected.kind = "exit0" /\ ~ExpectedPayload(inspected.stdout)) =>
        /\ exit_status # "traceback"
        /\ Len(all_package_rows) = rows_before

\* C6: run_pip_check never raises; exit 0 gives the output, a non-zero exit the
\* output and the error output (no error marker), and only a launch failure the
\* error text.
C6_PipCheckIsText ==
    /\ exit_status = "traceback" => procs[Len(procs)].args = "-c"
    /\ pc = "loop" => Len(all_env_rows) = idx - 1
    /\ all_env_rows # << >> =>
          LET out == Field(all_env_rows[Len(all_env_rows)], "Pip Check Output")
              p   == checked.pip
              has_marker == \E i \in DOMAIN out.v : out.v[i] = "Error running pip check: "
          IN  /\ out.t = "str"
              /\ has_marker <=> p.kind = "oserror"
              /\ p.kind = "exit0" => NonSpace(out.v) = NonSpace(p.stdout)
              /\ p.kind = "nonzero" =>
                    /\ NonSpace(out.v) = NonSpace(p.stdout \o p.stderr)
                    /\ \E i \in DOMAIN out.v :
                          /\ out.v[i] = "\n"
                          /\ NonSpace(SubSeq(out.v, 1, i - 1)) = NonSpace(p.stdout)
                          /\ NonSpace(SubSeq(out.v, i + 1, Len(out.v))) = NonSpace(p.stderr)

\* C6 witness: a pip check that exited non-zero with text on both streams has
\* been turned into an environment row.
C6_Witness ==
    /\ all_env_rows # << >>
    /\ checked.pip.kind = "nonzero"
    /\ NonSpace(checked.pip.stdout) # << >>
    /\ NonSpace(checked.pip.stderr) # << >>
    /\ checked.pip.stdout[1] = " "

\* C7: a root directory with no marker anywhere gives an empty result, exit
\* status 1, no subprocess and no output file.
C7_NoEnvironments ==
    (WalkFinished /\ ~\E d \in dirs : HoldsMarker(d)) =>
        /\ envs = << >>
        /\ pc = "exited"
        /\ exit_status = "1"
        /\ procs = << >>
        /\ NothingWritten

\* C7 witness: a tree of several directories, one of them named like the marker
\* directory, was walked to its end and the run ended with status 1.
C7_Witness ==
    /\ WalkFinished
    /\ envs = << >>
    /\ exit_status = "1"
    /\ visited = dirs
    /\ Cardinality(dirs) > 3
    /\ \E d \in dirs : d # RootDir /\ basename(d) # "a"

\* C8: a path that is not a directory ends the run at once with status 1: no
\* walk, no subprocess, no output file.
C8_InvalidRoot ==
    root_kind \in { "file", "missing" } =>
        /\ pc = "exited"
        /\ exit_status = "1"
        /\ stack = << >>
        /\ visited = {}
        /\ envs = << >>
        /\ procs = << >>
        /\ NothingWritten

\* C8 witness: the path given was missing, and the run has ended.
C8_Witness ==
    /\ root_kind = "missing"
    /\ pc = "exited"
    /\ pyfiles # {}

\* C9: whenever the reports are written, the header row of each file lists the
\* columns of its documented schema (the claim as stated).
C9_Headers ==
    Emitted =>
        /\ files["pip_envs_packages_info.csv"].header = PackageSchema
        /\ files["pip_envs_env_info.csv"].header = EnvironmentSchema

\* C10: for every distribution a successful inspection reports, a missing folder
\* (the name with hyphens replaced by underscores) gives the sentinel and a null
\* days value, and an existing one a formatted timestamp and a number.
C10_FolderSentinel ==
    (inspected.kind = "exit0" /\ inspected.site.dists # << >> /\ pc # "exited") =>
        /\ Len(all_package_rows) >= rows_before + Len(inspected.site.dists)
        /\ \A i \in DOMAIN inspected.site.dists :
              LET dist   == inspected.site.dists[i]
                  folder == [n \in DOMAIN dist |-> IF dist[n] = "-" THEN "_" ELSE dist[n]]
                  row    == all_package_rows[rows_before + i]
                  time   == Field(row, "Last Access Time")
                  days   == Field(row, "Days Since Last Access")
              IN  /\ Field(row, "Package") = Str(dist)
                  /\ folder \notin inspected.site.entries =>
                        /\ time = Str(<< "Package folder not found." >>)
                        /\ days = None
                  /\ folder \in inspected.site.entries =>
                        /\ time.t = "str"
                        /\ time.v # << "Package folder not found." >>
                        /\ time.v[1] = "ctime "
                        /\ days.t = "num"

\* C10 witness: a distribution whose name has a hyphen was reported; a folder
\* with the hyphenated name exists, the derived one does not, and another
\* distribution of the same site has its folder.
C10_Witness ==
    /\ pc = "check"
    /\ inspected.kind = "exit0"
    /\ Len(inspected.site.dists) = 2
    /\ inspected.site.dists[1] = << "a", "-", "b" >>
    /\ inspected.site.dists[2] = << "c" >>
    /\ inspected.site.entries = { << "a", "-", "b" >>, << "c" >> }
====
